---- MODULE Spec2Model ----
(***************************************************************************)
(* Model of BOT_V9.5: the price-triggered watcher (class Sniper, in its    *)
(* two revisions src/sniper.js and src/unnamed/part_002), the trade        *)
(* executor entry point SwapCreator.swapTokens (src/unnamed/part_001) and  *)
(* the pool-genesis decode pipeline processRaydiumLpTransaction            *)
(* (src/unnamed/part_000).                                                 *)
(*                                                                         *)
(* Every await of the JavaScript code is a suspension point: an async      *)
(* method is one action from its call to its first await and one action    *)
(* per settled promise after that, so that other callbacks interleave      *)
(* exactly where the event loop lets them.                                 *)
(***************************************************************************)
EXTENDS Integers, Sequences, FiniteSets, TLC

(***************************************************************************)
(* Bounds of the model.                                                    *)
(***************************************************************************)
MaxBuyCalls == 2
MaxSubscribes == 1
MaxHandlers == 2
MaxUnsubCalls == 2
MaxSessionSubscribes == 2

(***************************************************************************)
(* JavaScript values.                                                      *)
(***************************************************************************)
NULL == "null"
UNDEFINED == "undefined"

\* !x for the object-or-null values of the code
Falsy(x) == x = NULL \/ x = UNDEFINED

\* this.vaultSubId = null
NoSub == -1

\* if (this.vaultSubId): a numeric handle is truthy unless it is 0
TruthyHandle(id) == id # NoSub /\ id # 0

\* the in-memory genesis record handed to the constructor, and the document
\* findOne returns from the collection
MemDoc == "fullLpData"
StoredDoc == "storedDoc"

(***************************************************************************)
(* JavaScript numbers that arise in the price computation, as fractions    *)
(* n/d of naturals; d = 0 stands for Infinity (n > 0) and NaN (n = 0).     *)
(***************************************************************************)
Num(n, d) == [n |-> n, d |-> d]
NumInt(k) == Num(k, 1)
IsNaN(a) == a.d = 0 /\ a.n = 0
NumAdd(a, b) == Num(a.n * b.d + b.n * a.d, a.d * b.d)
NumMul(a, b) == Num(a.n * b.n, a.d * b.d)
NumDiv(a, b) == Num(a.n * b.d, a.d * b.n)
\* a >= b
NumGe(a, b) ==
    IF IsNaN(a) \/ IsNaN(b) THEN FALSE
    ELSE IF a.d = 0 THEN TRUE
    ELSE IF b.d = 0 THEN FALSE
    ELSE a.n * b.d >= b.n * a.d

RECURSIVE Pow10(_)
Pow10(e) == IF e = 0 THEN 1 ELSE 10 * Pow10(e - 1)

(***************************************************************************)
(* Inputs: the revision of the Sniper class, the cfg object the session is *)
(* built from, the lamports a notification reports.                        *)
(***************************************************************************)
Revisions == {"sniper.js", "part_002"}

CfgSamples ==
    { [K |-> 599999, V |-> 50, sellTargetPrice |-> 20, quoteDecimals |-> 0],
      [K |-> 60000,  V |-> 50, sellTargetPrice |-> 20, quoteDecimals |-> 1] }

LamportsSamples == {0, 10000, 10001}

\* the first handle the connection hands out
FirstSubIds == {0, 1}

BuyIds == 1..MaxBuyCalls
HandlerIds == 1..MaxHandlers
UnsubIds == 1..MaxUnsubCalls

VARIABLES
    rev,        \* which revision of class Sniper runs
    cfg,        \* the cfg object of the constructor
    store,      \* what findOne({_id: tokenId}) finds in the collection
    sniper,     \* the fields of the Sniper object
    conn,       \* this.connection: handle counter, registered listeners, removal requests
    swapLog,    \* the argument objects of every swapCreator.swapTokens call, in order
    dbConnects, \* number of MongoClient connections opened by the session
    subscribes, \* number of subscribeToVault calls
    buyPc,      \* position of each executeBuy call
    buyArgs,    \* the argument object each executeBuy call handed to swapTokens
    buyTrade,   \* what became of the trade of each executeBuy call
    hPc,        \* position of each notification callback
    lamportsNow,\* the lamports of the latest notification delivered
    hLp,        \* lpData of each callback's executeSell
    env,        \* process.env.USER_SOLANA_ADDRESS of the decode pipeline
    tx,         \* the transaction getTransaction(sig) returns
    dPc,        \* position of the processRaydiumLpTransaction call
    dIx,        \* the instruction the call decodes (0: none)
    dParams,    \* parseInit2's result
    dRaw,       \* the pair fields before the flip
    td,         \* the record the call builds
    lpDb,       \* the module-level db handle of the decode pipeline
    collection, \* the documents inserted into raydium_lp_transactionsV3
    mintDecimals, \* the decimals getTokenSupply reports for each mint
    poolData,   \* liquidityStateV4Layout.decode(poolAcc.data)
    mAcc,       \* the market account getAccountInfo(marketId) returned
    dReads,     \* the ledger reads of the call and how each one ended
    swapRev,    \* which revision of class SwapCreator runs
    swapData,   \* the tokenData argument of the swapTokens call
    swapPc,     \* position of the swapTokens call
    poolKeys,   \* the poolKeys createPoolKeysFromTokenData returned
    swapSent,   \* whether sendAndConfirmTransaction has been called
    uPc,        \* position of each unsubscribe call made from outside the callback
    peer,       \* the fields of a second Sniper object
    peerConn,   \* the connection the second Sniper object created
    peerPc,     \* position of the second object's unsubscribe call
    peerSubscribes \* number of subscribeToVault calls on the second object

wvars == <<rev, cfg, store, sniper, conn, swapLog, dbConnects, subscribes,
           buyPc, buyArgs, buyTrade, hPc, lamportsNow, hLp>>

dvars == <<env, tx, dPc, dIx, dParams, dRaw, td, lpDb, collection, mintDecimals,
           poolData, mAcc, dReads>>

svars == <<swapRev, swapData, swapPc, poolKeys, swapSent>>

lvars == <<uPc, peer, peerConn, peerPc, peerSubscribes>>

vars == <<wvars, dvars, svars, lvars>>

(***************************************************************************)
(* Sniper.constructor                                                      *)
(***************************************************************************)
TargetMultiplier(c) == NumAdd(NumInt(1), Num(c.sellTargetPrice, 100))

CalculatedSell(c) == NumMul(NumInt(c.V), TargetMultiplier(c))

Constructor(c, fullLpData) ==
    [ K |-> c.K,
      quoteDecimals |-> c.quoteDecimals,
      calculatedSell |-> CalculatedSell(c),
      fullLpData |-> fullLpData,
      vaultSubId |-> NoSub,
      db |-> NULL ]

WatcherInit ==
    /\ rev \in Revisions
    /\ cfg \in CfgSamples
    /\ store \in {StoredDoc, NULL}
    /\ sniper = Constructor(cfg, MemDoc)
    /\ \E first \in FirstSubIds :
         conn = [nextId |-> first, listeners |-> {}, removals |-> <<>>]
    /\ swapLog = <<>>
    /\ dbConnects = 0
    /\ subscribes = 0
    /\ buyPc = [i \in BuyIds |-> "idle"]
    /\ buyArgs = [i \in BuyIds |-> UNDEFINED]
    /\ buyTrade = [i \in BuyIds |-> "none"]
    /\ hPc = [h \in HandlerIds |-> "idle"]
    /\ lamportsNow = 0
    /\ hLp = [h \in HandlerIds |-> UNDEFINED]

(***************************************************************************)
(* SwapCreator.swapTokens({ tokenData, amountSpecified, swapBaseIn, owner })*)
(* outcome is what the SDK and the ledger do with the trade.               *)
(***************************************************************************)
TokenDataOf(args) ==
    IF "tokenData" \in DOMAIN args THEN args.tokenData ELSE UNDEFINED

\* a swapTokens whose catch block does not rethrow
SwapTokensSwallows(args, outcome) ==
    IF Falsy(TokenDataOf(args)) THEN "rejected" ELSE "resolved"

\* if (!tokenData) throw ...; try { ... return signature } catch (error) { ... throw error }
SwapTokens(args, outcome) ==
    IF Falsy(TokenDataOf(args)) THEN "rejected"
    ELSE IF outcome = "ok" THEN "resolved"
    ELSE "rejected"

\* what can become of the trade: without tokenData none is built
SwapOutcomes(args) ==
    IF Falsy(TokenDataOf(args)) THEN {"notBuilt"} ELSE {"ok", "fail"}

(***************************************************************************)
(* Sniper.executeBuy                                                       *)
(***************************************************************************)
\* the object literal handed to swapTokens
BuyArgs(data) == [tokenData |-> data, swapBaseIn |-> FALSE]

BuyArgsSniperJs(data) == [lpData |-> data, swapBaseIn |-> FALSE]

\* this.fullLpData once the awaited swap has settled with result res
BuyFinally(res, data) == NULL

BuyFreeMemorySniperJs(res, data) == IF res = "resolved" THEN NULL ELSE data

ExecuteBuy(i) ==
    /\ buyPc[i] = "idle"
    /\ \A j \in BuyIds : j < i => buyPc[j] # "idle"
    /\ IF Falsy(sniper.fullLpData)
       THEN /\ buyPc' = [buyPc EXCEPT ![i] = "threwNoData"]
            /\ UNCHANGED <<buyArgs, buyTrade, swapLog>>
       ELSE LET args == IF rev = "part_002" THEN BuyArgs(sniper.fullLpData)
                        ELSE BuyArgsSniperJs(sniper.fullLpData)
            IN  /\ buyArgs' = [buyArgs EXCEPT ![i] = args]
                /\ swapLog' = Append(swapLog, args)
                /\ buyPc' = [buyPc EXCEPT ![i] = "awaitSwap"]
                /\ UNCHANGED buyTrade
    /\ UNCHANGED <<rev, cfg, store, sniper, conn, dbConnects, subscribes,
                   hPc, lamportsNow, hLp>>
    /\ UNCHANGED <<dvars, svars, lvars>>

ExecuteBuySettles(i) ==
    /\ buyPc[i] = "awaitSwap"
    /\ \E outcome \in SwapOutcomes(buyArgs[i]) :
         LET res == SwapTokens(buyArgs[i], outcome)
             data == IF rev = "part_002" THEN BuyFinally(res, sniper.fullLpData)
                     ELSE BuyFreeMemorySniperJs(res, sniper.fullLpData)
         IN  /\ sniper' = [sniper EXCEPT !.fullLpData = data]
             /\ buyPc' = [buyPc EXCEPT ![i] = res]
             /\ buyTrade' = [buyTrade EXCEPT ![i] = outcome]
    /\ UNCHANGED <<rev, cfg, store, conn, swapLog, dbConnects, subscribes,
                   buyArgs, hPc, lamportsNow, hLp>>
    /\ UNCHANGED <<dvars, svars, lvars>>

(***************************************************************************)
(* The caller of the session: it subscribes once a buy has resolved.       *)
(***************************************************************************)
CallerAdvancesToWatching == \E i \in BuyIds : buyPc[i] = "resolved"

(***************************************************************************)
(* Sniper.subscribeToVault                                                 *)
(***************************************************************************)
OnAccountChange(c) ==
    [c EXCEPT !.nextId = c.nextId + 1, !.listeners = c.listeners \cup {c.nextId}]

\* a call of subscribeToVault, the limit-th at most
SubscribeToVaultWithin(limit) ==
    /\ CallerAdvancesToWatching
    /\ subscribes < limit
    /\ subscribes' = subscribes + 1
    /\ conn' = OnAccountChange(conn)
    /\ sniper' = [sniper EXCEPT !.vaultSubId = conn.nextId]
    /\ UNCHANGED <<rev, cfg, store, swapLog, dbConnects,
                   buyPc, buyArgs, buyTrade, hPc, lamportsNow, hLp>>
    /\ UNCHANGED <<dvars, svars, lvars>>

SubscribeToVault == SubscribeToVaultWithin(MaxSubscribes)

(***************************************************************************)
(* Sniper.unsubscribe                                                      *)
(***************************************************************************)
RemoveAccountChangeListener(c, id) ==
    [c EXCEPT !.listeners = c.listeners \ {id}, !.removals = Append(c.removals, id)]

\* the connection after unsubscribe() has run up to its await (or to its end)
UnsubscribeCall(s, c) ==
    IF TruthyHandle(s.vaultSubId) THEN RemoveAccountChangeListener(c, s.vaultSubId)
    ELSE c

\* whether unsubscribe() is suspended on the removal
UnsubscribeAwaits(s) == TruthyHandle(s.vaultSubId)

\* an unsubscribe that keeps the handle after the removal
UnsubscribeKeepsHandle(s) == s

\* this.vaultSubId = null, after the awaited removal
UnsubscribeClear(s) == [s EXCEPT !.vaultSubId = NoSub]

LedgerOutcomes == {"ok", "fail"}

(***************************************************************************)
(* The callback of subscribeToVault, with executeSell, fetchFromMongo and  *)
(* getTokenBalance.                                                        *)
(***************************************************************************)
QuoteHuman(s, lamports) == NumDiv(NumInt(lamports), NumInt(Pow10(s.quoteDecimals)))

PriceNow(s, lamports) == NumDiv(NumInt(s.K), QuoteHuman(s, lamports))

\* a comparison with > in place of >=
TargetReachedStrict(s, lamports) ==
    /\ NumGe(PriceNow(s, lamports), s.calculatedSell)
    /\ ~NumGe(s.calculatedSell, PriceNow(s, lamports))

\* a comparison turned around: priceNow <= this.calculatedSell
TargetReachedAtOrBelow(s, lamports) == NumGe(s.calculatedSell, PriceNow(s, lamports))

\* if (priceNow >= this.calculatedSell)
TargetReached(s, lamports) == NumGe(PriceNow(s, lamports), s.calculatedSell)

\* the callback invoked with one of the balances, up to its first await
NotifyOf(h, balances) ==
    /\ hPc[h] = "idle"
    /\ \A j \in HandlerIds : j < h => hPc[j] # "idle"
    /\ conn.listeners # {}
    /\ \E lamports \in balances :
         /\ lamportsNow' = lamports
         /\ IF TargetReached(sniper, lamports)
            THEN IF Falsy(sniper.db)
                 THEN /\ dbConnects' = dbConnects + 1
                      /\ hPc' = [hPc EXCEPT ![h] = "awaitConnect"]
                 ELSE /\ hPc' = [hPc EXCEPT ![h] = "awaitFindOne"]
                      /\ UNCHANGED dbConnects
            ELSE /\ hPc' = [hPc EXCEPT ![h] = "doneBelowTarget"]
                 /\ UNCHANGED dbConnects
    /\ UNCHANGED <<rev, cfg, store, sniper, conn, swapLog, subscribes,
                   buyPc, buyArgs, buyTrade, hLp>>
    /\ UNCHANGED <<dvars, svars, lvars>>

Notify(h) == NotifyOf(h, LamportsSamples)

\* await cli.connect(); this.db = cli.db('bot')
ConnectSettles(h) ==
    /\ hPc[h] = "awaitConnect"
    /\ \E outcome \in {"ok", "fail"} :
         IF outcome = "ok"
         THEN /\ sniper' = [sniper EXCEPT !.db = "db"]
              /\ hPc' = [hPc EXCEPT ![h] = "awaitFindOne"]
         ELSE /\ hPc' = [hPc EXCEPT ![h] = "failedStorage"]
              /\ UNCHANGED sniper
    /\ UNCHANGED <<rev, cfg, store, conn, swapLog, dbConnects, subscribes,
                   buyPc, buyArgs, buyTrade, lamportsNow, hLp>>
    /\ UNCHANGED <<dvars, svars, lvars>>

\* a validation check that lets every fetch result pass
SellValidatesAnything(lpData) == TRUE

\* if (!lpData) throw new Error('Failed to fetch LP data from MongoDB')
SellValidates(lpData) == ~Falsy(lpData)

\* src/sniper.js has no check after the fetch
SellValidatesSniperJs(lpData) == TRUE

FindOneSettles(h) ==
    /\ hPc[h] = "awaitFindOne"
    /\ \E outcome \in {"ok", "fail"} :
         IF outcome = "ok"
         THEN LET valid == IF rev = "part_002" THEN SellValidates(store)
                           ELSE SellValidatesSniperJs(store)
              IN  /\ hLp' = [hLp EXCEPT ![h] = store]
                  /\ hPc' = [hPc EXCEPT ![h] =
                               IF valid THEN "awaitBalance" ELSE "failedStorage"]
         ELSE /\ hPc' = [hPc EXCEPT ![h] = "failedStorage"]
              /\ UNCHANGED hLp
    /\ UNCHANGED <<rev, cfg, store, sniper, conn, swapLog, dbConnects, subscribes,
                   buyPc, buyArgs, buyTrade, lamportsNow>>
    /\ UNCHANGED <<dvars, svars, lvars>>

SellArgs(lpData) == [tokenData |-> lpData, swapBaseIn |-> TRUE]

SellArgsSniperJs(lpData) == [lpData |-> lpData, swapBaseIn |-> TRUE]

\* amountSpecified: await this.getTokenBalance(), then the call of swapTokens
BalanceSettles(h) ==
    /\ hPc[h] = "awaitBalance"
    /\ \E outcome \in LedgerOutcomes :
         IF outcome = "fail"
         THEN /\ hPc' = [hPc EXCEPT ![h] = "failedLedger"]
              /\ UNCHANGED swapLog
         ELSE IF rev = "part_002"
         THEN /\ swapLog' = Append(swapLog, SellArgs(hLp[h]))
              /\ hPc' = [hPc EXCEPT ![h] = "awaitSell"]
         ELSE IF Falsy(hLp[h])   \* lpData.baseMint of null
         THEN /\ hPc' = [hPc EXCEPT ![h] = "failedTypeError"]
              /\ UNCHANGED swapLog
         ELSE /\ swapLog' = Append(swapLog, SellArgsSniperJs(hLp[h]))
              /\ hPc' = [hPc EXCEPT ![h] = "awaitSell"]
    /\ UNCHANGED <<rev, cfg, store, sniper, conn, dbConnects, subscribes,
                   buyPc, buyArgs, buyTrade, lamportsNow, hLp>>
    /\ UNCHANGED <<dvars, svars, lvars>>

\* await this.executeSell(); await this.unsubscribe();
SellSettles(h) ==
    /\ hPc[h] = "awaitSell"
    /\ LET args == IF rev = "part_002" THEN SellArgs(hLp[h]) ELSE SellArgsSniperJs(hLp[h])
       IN  \E outcome \in SwapOutcomes(args) :
             IF SwapTokens(args, outcome) = "resolved"
             THEN /\ conn' = UnsubscribeCall(sniper, conn)
                  /\ hPc' = [hPc EXCEPT ![h] =
                               IF UnsubscribeAwaits(sniper) THEN "awaitRemove" ELSE "done"]
             ELSE /\ hPc' = [hPc EXCEPT ![h] = "failedTrade"]
                  /\ UNCHANGED conn
    /\ UNCHANGED <<rev, cfg, store, sniper, swapLog, dbConnects, subscribes,
                   buyPc, buyArgs, buyTrade, lamportsNow, hLp>>
    /\ UNCHANGED <<dvars, svars, lvars>>

RemoveSettles(h) ==
    /\ hPc[h] = "awaitRemove"
    /\ \E outcome \in LedgerOutcomes :
         IF outcome = "ok"
         THEN /\ sniper' = UnsubscribeClear(sniper)
              /\ hPc' = [hPc EXCEPT ![h] = "done"]
         ELSE /\ hPc' = [hPc EXCEPT ![h] = "failedRemove"]
              /\ UNCHANGED sniper
    /\ UNCHANGED <<rev, cfg, store, conn, swapLog, dbConnects, subscribes,
                   buyPc, buyArgs, buyTrade, lamportsNow, hLp>>
    /\ UNCHANGED <<dvars, svars, lvars>>

(***************************************************************************)
(* Sniper.unsubscribe called by the owner of the session, outside the      *)
(* notification callback; the owner awaits each call before the next.      *)
(***************************************************************************)
Unsubscribe(u) ==
    /\ uPc[u] = "idle"
    /\ \A j \in UnsubIds : j < u => uPc[j] \in {"done", "failedRemove"}
    /\ conn' = UnsubscribeCall(sniper, conn)
    /\ uPc' = [uPc EXCEPT ![u] = IF UnsubscribeAwaits(sniper) THEN "awaitRemove" ELSE "done"]
    /\ UNCHANGED <<rev, cfg, store, sniper, swapLog, dbConnects, subscribes,
                   buyPc, buyArgs, buyTrade, hPc, lamportsNow, hLp>>
    /\ UNCHANGED <<peer, peerConn, peerPc, peerSubscribes>>
    /\ UNCHANGED <<dvars, svars>>

UnsubscribeSettles(u) ==
    /\ uPc[u] = "awaitRemove"
    /\ \E outcome \in LedgerOutcomes :
         IF outcome = "ok"
         THEN /\ sniper' = UnsubscribeClear(sniper)
              /\ uPc' = [uPc EXCEPT ![u] = "done"]
         ELSE /\ uPc' = [uPc EXCEPT ![u] = "failedRemove"]
              /\ UNCHANGED sniper
    /\ UNCHANGED <<rev, cfg, store, conn, swapLog, dbConnects, subscribes,
                   buyPc, buyArgs, buyTrade, hPc, lamportsNow, hLp>>
    /\ UNCHANGED <<peer, peerConn, peerPc, peerSubscribes>>
    /\ UNCHANGED <<dvars, svars>>

(***************************************************************************)
(* A second Sniper object: its constructor creates its own Connection, on  *)
(* which it subscribes and unsubscribes.                                   *)
(***************************************************************************)
\* this.connection = new Connection(...): a connection of its own, numbering
\* its subscriptions as every other connection does
NewConnection(first) == [nextId |-> first, listeners |-> {}, removals |-> <<>>]

PeerSubscribeToVault ==
    /\ peerPc = "idle"
    /\ peerSubscribes < MaxSubscribes
    /\ peerSubscribes' = peerSubscribes + 1
    /\ peerConn' = OnAccountChange(peerConn)
    /\ peer' = [peer EXCEPT !.vaultSubId = peerConn.nextId]
    /\ UNCHANGED <<uPc, peerPc>>
    /\ UNCHANGED <<wvars, dvars, svars>>

PeerUnsubscribe ==
    /\ peerPc = "idle"
    /\ peerConn' = UnsubscribeCall(peer, peerConn)
    /\ peerPc' = IF UnsubscribeAwaits(peer) THEN "awaitRemove" ELSE "done"
    /\ UNCHANGED <<uPc, peer, peerSubscribes>>
    /\ UNCHANGED <<wvars, dvars, svars>>

PeerRemoveSettles ==
    /\ peerPc = "awaitRemove"
    /\ \E outcome \in LedgerOutcomes :
         IF outcome = "ok"
         THEN /\ peer' = UnsubscribeClear(peer)
              /\ peerPc' = "done"
         ELSE /\ peerPc' = "failedRemove"
              /\ UNCHANGED peer
    /\ UNCHANGED <<uPc, peerConn, peerSubscribes>>
    /\ UNCHANGED <<wvars, dvars, svars>>

(***************************************************************************)
(* newRaydiumLpService: constants.                                         *)
(***************************************************************************)
RAYDIUM_AMM == "RAYDIUM_AMM_PROGRAM_ID"
WSOL_MINT == "So11111111111111111111111111111111111111112"
SYSVAR_CLOCK == "SysvarC1ock11111111111111111111111111111111"

(***************************************************************************)
(* JavaScript arrays (0-based) as sequences: arr[i] is undefined outside   *)
(* the array; an index that is itself undefined is -1 here.                *)
(***************************************************************************)
IndexAt(idx, k) == IF k \in 0..(Len(idx) - 1) THEN idx[k + 1] ELSE -1

AccountAt(accounts, i) == IF i \in 0..(Len(accounts) - 1) THEN accounts[i + 1] ELSE UNDEFINED

\* accounts[idx[k]]
Acc(accounts, idx, k) == AccountAt(accounts, IndexAt(idx, k))

\* new PublicKey(x) throws on undefined
PublicKeyThrows(x) == x = UNDEFINED

(***************************************************************************)
(* Unsigned 64-bit values are kept as their eight base-256 digits, most    *)
(* significant first; a buffer is a sequence of bytes, offset 0 first.     *)
(***************************************************************************)
\* buf.readBigUInt64LE(offset) throws a RangeError past the end of the buffer
ReadInRange(buf, offset) == offset + 8 <= Len(buf)

\* a read that takes the byte at offset as the most significant
ReadBigUInt64BE(buf, offset) == [j \in 1..8 |-> buf[offset + j]]

\* buf.readBigUInt64LE(offset): the byte at offset is the least significant
ReadBigUInt64LE(buf, offset) == [j \in 1..8 |-> buf[offset + 9 - j]]

ParseInit2(buf) ==
    [ initPcAmount |-> ReadBigUInt64LE(buf, 10),
      initCoinAmount |-> ReadBigUInt64LE(buf, 18) ]

ParseInit2Throws(buf) == ~ReadInRange(buf, 10) \/ ~ReadInRange(buf, 18)

(***************************************************************************)
(* BigInt values are kept as limbs in base 10^4, most significant first,   *)
(* without leading zero limbs (zero is <<0>>); decimal strings as their    *)
(* digits, most significant first.                                         *)
(***************************************************************************)
Limb == 10000

Zeros(n) == [i \in 1..n |-> 0]

IsZero(digs) == \A i \in DOMAIN digs : digs[i] = 0

RECURSIVE Canon(_)
Canon(a) ==
    IF Len(a) = 0 THEN <<0>>
    ELSE IF Len(a) > 1 /\ a[1] = 0 THEN Canon(Tail(a))
    ELSE a

\* the i-th least significant digit or limb
Digit(a, i) == IF i <= Len(a) THEN a[Len(a) + 1 - i] ELSE 0

\* short division of digs, written in base from, by d: <<quotient, remainder>>
RECURSIVE DivSmall(_, _, _, _, _)
DivSmall(digs, from, d, i, rem) ==
    IF i > Len(digs) THEN << <<>>, rem >>
    ELSE LET cur == rem * from + digs[i]
             rest == DivSmall(digs, from, d, i + 1, cur % d)
         IN  << <<cur \div d>> \o rest[1], rest[2] >>

\* the digits in base to of the number digs written in base from
RECURSIVE ToRadix(_, _, _)
ToRadix(digs, from, to) ==
    IF IsZero(digs) THEN <<>>
    ELSE LET qr == DivSmall(digs, from, to, 1, 0)
         IN  Append(ToRadix(qr[1], from, to), qr[2])

\* BigInt.prototype.toString() of an unsigned 64-bit value
BigUIntToString(v) == Canon(ToRadix(v, 256, 10))

\* BigInt(str) of a decimal string
BigInt(str) ==
    Canon([ j \in 1..((Len(str) + 3) \div 4) |->
              LET k == (Len(str) + 3) \div 4 - j
              IN  Digit(str, 4 * k + 1) + 10 * Digit(str, 4 * k + 2)
                    + 100 * Digit(str, 4 * k + 3) + 1000 * Digit(str, 4 * k + 4) ])

RECURSIVE AddFrom(_, _, _, _)
AddFrom(a, b, i, carry) ==
    IF i > Len(a) /\ i > Len(b)
    THEN IF carry = 0 THEN <<>> ELSE <<carry>>
    ELSE LET s == Digit(a, i) + Digit(b, i) + carry
         IN  Append(AddFrom(a, b, i + 1, s \div Limb), s % Limb)

BigAdd(a, b) == Canon(AddFrom(a, b, 1, 0))

RECURSIVE MulSmallFrom(_, _, _, _)
MulSmallFrom(a, d, i, carry) ==
    IF i > Len(a)
    THEN IF carry = 0 THEN <<>> ELSE <<carry>>
    ELSE LET s == Digit(a, i) * d + carry
         IN  Append(MulSmallFrom(a, d, i + 1, s \div Limb), s % Limb)

RECURSIVE MulFrom(_, _, _)
MulFrom(a, b, j) ==
    IF j > Len(b) THEN <<0>>
    ELSE BigAdd(MulSmallFrom(a, Digit(b, j), 1, 0) \o Zeros(j - 1), MulFrom(a, b, j + 1))

\* a * b
BigMul(a, b) == Canon(MulFrom(a, b, 1))

\* 10n ** BigInt(n)
BigPow10(n) == << Pow10(n % 4) >> \o Zeros(n \div 4)

\* a / 10n ** BigInt(n): the quotient, rounded towards zero
BigDivPow10(a, n) ==
    IF n \div 4 >= Len(a) THEN <<0>>
    ELSE Canon(DivSmall(SubSeq(a, 1, Len(a) - n \div 4), Limb, Pow10(n % 4), 1, 0)[1])

RECURSIVE LexLe(_, _, _)
LexLe(a, b, i) ==
    IF i > Len(a) THEN TRUE
    ELSE IF a[i] # b[i] THEN a[i] < b[i]
    ELSE LexLe(a, b, i + 1)

\* a <= b
BigLe(a, b) == Len(a) < Len(b) \/ (Len(a) = Len(b) /\ LexLe(a, b, 1))

(***************************************************************************)
(* processRaydiumLpTransaction: the synchronous part of the loop body.     *)
(***************************************************************************)
\* a mapping that always takes the default layout
AuthorityDefaultLayout(accounts, idx) == Acc(accounts, idx, 5)

\* variant-aware account mapping
Authority(accounts, idx) ==
    IF Acc(accounts, idx, 5) = SYSVAR_CLOCK THEN Acc(accounts, idx, 6)
    ELSE Acc(accounts, idx, 5)

OpenOrders(accounts, idx) ==
    IF Acc(accounts, idx, 5) = SYSVAR_CLOCK THEN Acc(accounts, idx, 7)
    ELSE Acc(accounts, idx, 6)

\* pair fields
PairFields(accounts, idx, params) ==
    [ baseMint |-> Acc(accounts, idx, 8),
      quoteMint |-> Acc(accounts, idx, 9),
      baseVault |-> Acc(accounts, idx, 10),
      quoteVault |-> Acc(accounts, idx, 11),
      initBase |-> params.initCoinAmount,
      initQuote |-> params.initPcAmount ]

\* a flip that exchanges the mints and the amounts and forgets the vaults
FlipMintsOnly(pair) ==
    IF pair.baseMint = WSOL_MINT
    THEN [ pair EXCEPT !.baseMint = pair.quoteMint, !.quoteMint = pair.baseMint,
                       !.initBase = pair.initQuote, !.initQuote = pair.initBase ]
    ELSE pair

\* flip if WSOL was coin side
Flip(pair) ==
    IF pair.baseMint = WSOL_MINT
    THEN [ baseMint |-> pair.quoteMint, quoteMint |-> pair.baseMint,
           baseVault |-> pair.quoteVault, quoteVault |-> pair.baseVault,
           initBase |-> pair.initQuote, initQuote |-> pair.initBase ]
    ELSE pair

TdFields(accounts, idx, pair) ==
    [ programId |-> RAYDIUM_AMM,
      ammId |-> Acc(accounts, idx, 4),
      lpMint |-> Acc(accounts, idx, 7),
      ammAuthority |-> Authority(accounts, idx),
      ammOpenOrders |-> OpenOrders(accounts, idx),
      baseMint |-> pair.baseMint,
      quoteMint |-> pair.quoteMint,
      baseVault |-> pair.baseVault,
      quoteVault |-> pair.quoteVault,
      targetOrders |-> Acc(accounts, idx, 13),
      marketProgramId |-> Acc(accounts, idx, 15),
      marketId |-> Acc(accounts, idx, 16),
      marketBaseVault |-> Acc(accounts, idx, 18),
      marketQuoteVault |-> Acc(accounts, idx, 19),
      marketAuthority |-> Acc(accounts, idx, 20),
      initPcAmount |-> pair.initQuote,
      initCoinAmount |-> pair.initBase,
      withdrawQueue |-> UNDEFINED,
      lpVault |-> UNDEFINED ]

\* a scan that stops at the first instruction, whatever its program
FirstIxOfAnyProgram(accounts, ixs, k) == IF k > Len(ixs) THEN 0 ELSE k

\* a scan that keeps the last instruction of the AMM program
LastAmmIx(accounts, ixs, k) ==
    LET amm == {j \in k..Len(ixs) : AccountAt(accounts, ixs[j].programIdIndex) = RAYDIUM_AMM}
    IN  IF amm = {} THEN 0 ELSE CHOOSE j \in amm : \A i \in amm : i <= j

\* for (const ix of ixs): the first instruction of the AMM program, 0 if none
RECURSIVE FirstAmmIx(_, _, _)
FirstAmmIx(accounts, ixs, k) ==
    IF k > Len(ixs) THEN 0
    ELSE IF AccountAt(accounts, ixs[k].programIdIndex) = RAYDIUM_AMM THEN k
    ELSE FirstAmmIx(accounts, ixs, k + 1)

(***************************************************************************)
(* Inputs of the decode pipeline: transactions whose genesis instruction   *)
(* was written by the encoder of the instruction (two u64 at offsets 10    *)
(* and 18 of the payload).                                                 *)
(***************************************************************************)
WriteBigUInt64LE(v) == [i \in 1..8 |-> v[9 - i]]

U64Samples ==
    { <<0, 0, 0, 0, 59, 154, 202, 0>>,     \* 1_000_000_000
      <<0, 0, 0, 11, 164, 59, 116, 0>>,    \* 50_000_000_000
      <<255, 2, 3, 4, 5, 6, 7, 8>> }

\* instruction tag, nonce, open time
PayloadHeader == <<1, 254, 9, 9, 9, 9, 9, 9, 9, 9>>

Payload(v10, v18, len) ==
    SubSeq(PayloadHeader \o WriteBigUInt64LE(v10) \o WriteBigUInt64LE(v18) \o <<7>>, 1, len)

PayloadLengths == {25, 26, 27}

AcctNames ==
    << "acct0", "acct1", "acct2", "acct3", "ammId", "authority", "openOrders", "lpMint",
       "mint8", "mint9", "vault10", "vault11", "acct12", "targetOrders", "acct14",
       "marketProgram", "market", "acct17", "marketBaseVault", "marketQuoteVault",
       "marketAuthority", RAYDIUM_AMM >>

\* the account keys of the message: position 5 holds a5, 8 and 9 the mints
Accounts(a5, m8, m9) ==
    [ p \in 1..Len(AcctNames) |->
        IF p = 6 THEN a5 ELSE IF p = 9 THEN m8 ELSE IF p = 10 THEN m9 ELSE AcctNames[p] ]

MintPairs == { <<WSOL_MINT, "mintA">>, <<"mintA", WSOL_MINT>>, <<"mintA", "mintB">> }

\* the account indexes of the instruction: all 21, a list cut short after 10
\* and one cut short after 18 positions, and a list whose base and quote mint
\* positions name the same account
IdxSamples ==
    { [k \in 1..21 |-> k - 1],
      [k \in 1..10 |-> k - 1],
      [k \in 1..18 |-> k - 1],
      [k \in 1..21 |-> IF k = 10 THEN 8 ELSE k - 1] }

AmmIx(idx, v10, v18, len) ==
    [ programIdIndex |-> 21, accounts |-> idx, data |-> Payload(v10, v18, len),
      written |-> <<v10, v18>> ]

OtherIx(idx, v10, v18, len) ==
    [ programIdIndex |-> 0, accounts |-> idx, data |-> Payload(v10, v18, len),
      written |-> <<v10, v18>> ]

IxLists(idx, v10, v18, len) ==
    { <<AmmIx(idx, v10, v18, len)>>,
      <<OtherIx(idx, v10, v18, len), AmmIx(idx, v10, v18, len)>>,
      <<OtherIx(idx, v10, v18, len)>>,
      <<AmmIx(idx, v10, v18, len), AmmIx(idx, v18, v10, 27)>> }

TxSamples ==
    { [accounts |-> Accounts(a5, mints[1], mints[2]), ixs |-> ixs] :
        a5 \in {"authority", SYSVAR_CLOCK}, mints \in MintPairs,
        ixs \in UNION { IxLists(idx, v10, v18, len) :
                          idx \in IdxSamples, v10 \in U64Samples,
                          v18 \in U64Samples, len \in PayloadLengths } }

\* the decimals the ledger reports for the mints of the samples
MintNames == {"mintA", "mintB", WSOL_MINT, "lpMint"}

MintDecimalsSamples ==
    { [m \in MintNames |-> IF m = "mintA" THEN a ELSE 9] : a \in {6, 9} }

\* a field of the decoded pool state: <<>> when the layout has no such field,
\* <<v>> when it decoded to the number v, <<-1>> when converting it throws
Absent == <<>>
Unreadable == <<-1>>

NumberFields ==
    { "swapFeeNumerator", "swapFeeDenominator", "ownerTradeFeeNumerator",
      "ownerTradeFeeDenominator", "ownerWithdrawFeeNumerator",
      "ownerWithdrawFeeDenominator", "status", "state", "resetFlag" }

StringFields == { "minSize", "pnlNumerator", "pnlDenominator" }

DescriptiveFields == NumberFields \cup StringFields \cup {"lpDecimals"}

PoolFieldNames == DescriptiveFields \cup {"withdrawQueue", "lpVault"}

\* a pool state whose descriptive fields all hold v
PoolState(withdrawQueue, lpVault, v) ==
    [ f \in PoolFieldNames |->
        IF f = "withdrawQueue" THEN withdrawQueue
        ELSE IF f = "lpVault" THEN lpVault
        ELSE v ]

PoolDataSamples ==
    { PoolState("withdrawQueue", "lpVault", <<7>>),
      PoolState("withdrawQueue", "lpVault", <<0>>),
      PoolState("withdrawQueue", "lpVault", Absent),
      [PoolState("withdrawQueue", "lpVault", <<7>>) EXCEPT !["status"] = Unreadable],
      PoolState(UNDEFINED, "lpVault", <<7>>),
      PoolState("withdrawQueue", UNDEFINED, <<7>>) }

\* the data of a market account: the byte at offset i is 7 * i modulo 256
MarketData(len) == [p \in 1..len |-> ((p - 1) * 7) % 256]

MarketSamples ==
    { [present |-> FALSE, data |-> <<>>],
      [present |-> TRUE, data |-> MarketData(340)],
      [present |-> TRUE, data |-> MarketData(341)],
      [present |-> TRUE, data |-> MarketData(400)] }

NoParams == [initPcAmount |-> <<>>, initCoinAmount |-> <<>>]

NoPair ==
    [ baseMint |-> UNDEFINED, quoteMint |-> UNDEFINED, baseVault |-> UNDEFINED,
      quoteVault |-> UNDEFINED, initBase |-> <<>>, initQuote |-> <<>> ]

NoTd == TdFields(<<>>, <<>>, NoPair)

(***************************************************************************)
(* processRaydiumLpTransaction: pool account fields, serum side-accounts,  *)
(* economics and pool state fields.                                        *)
(***************************************************************************)
\* address fields that are taken as they come
PoolAddressThrowsNever(pd) == FALSE

\* new PublicKey(poolData.withdrawQueue), new PublicKey(poolData.lpVault)
PoolAddressThrows(pd) == PublicKeyThrows(pd.withdrawQueue) \/ PublicKeyThrows(pd.lpVault)

\* Object.assign(td, {withdrawQueue, lpVault, lpDecimals}); nonce and openTime
\* are not carried
AssignPoolFields(rec, pd, lpSupplyDecimals) ==
    [ lpDecimals |-> IF pd.lpDecimals # Absent THEN pd.lpDecimals[1] ELSE lpSupplyDecimals ]
    @@ [ rec EXCEPT !.withdrawQueue = pd.withdrawQueue, !.lpVault = pd.lpVault ]

\* a check that lets a market account of 340 bytes pass
MarketTooShortBelow340(m) == ~m.present \/ Len(m.data) < 340

\* !mAcc || mAcc.data.length < 341
MarketTooShort(m) == ~m.present \/ Len(m.data) < 341

\* d.subarray(start, end): the bytes at offsets start .. end - 1 that d holds
Subarray(d, start, end) == SubSeq(d, start + 1, IF end < Len(d) THEN end ELSE Len(d))

\* new PublicKey(bytes): an address is kept as its 32 bytes (toString() writes
\* these 32 bytes in base58); fewer bytes are padded with zero bytes in front
PublicKeyOfBytes(bytes) == Zeros(32 - Len(bytes)) \o bytes

MarketFields(d) ==
    [ marketEventQueue |-> PublicKeyOfBytes(Subarray(d, 245, 277)),
      marketBids |-> PublicKeyOfBytes(Subarray(d, 277, 309)),
      marketAsks |-> PublicKeyOfBytes(Subarray(d, 309, 341)) ]

\* a Promise.all that looks at the first read only
SuppliesThrowFirstOnly(ob, oq) == ob = "fail"

\* Promise.all([getTokenSupply(baseMint), getTokenSupply(quoteMint)]) rejects
\* when either read fails
SuppliesThrow(ob, oq) == ob = "fail" \/ oq = "fail"

\* a K that is scaled by the quote decimals only
KhumanQuoteDecimalsOnly(initQuote, initBase, quoteDecimals, baseDecimals) ==
    BigDivPow10(BigMul(BigInt(BigUIntToString(initQuote)),
                       BigInt(BigUIntToString(initBase))),
                quoteDecimals)

\* (BigInt(initQuote) * BigInt(initBase)) / (10n ** BigInt(quoteDecimals +
\* baseDecimals)); the amounts are carried as the u64 parseInit2 read, their
\* decimal text is formed here, where it is parsed back
Khuman(initQuote, initBase, quoteDecimals, baseDecimals) ==
    BigDivPow10(BigMul(BigInt(BigUIntToString(initQuote)),
                       BigInt(BigUIntToString(initBase))),
                quoteDecimals + baseDecimals)

\* Khuman.toString()
BigIntToString(a) == Canon(ToRadix(a, Limb, 10))

\* (Number(initQuote) / 10 ** quoteDecimals) / (Number(initBase) / 10 **
\* baseDecimals): the quotient num / den the double arithmetic rounds; the
\* stored double is this quotient itself when the two amounts are below 2^53
\* and whole multiples of their units and den divides num
LaunchPrice(initQuote, initBase, quoteDecimals, baseDecimals) ==
    [ num |-> BigMul(BigInt(BigUIntToString(initQuote)), BigPow10(baseDecimals)),
      den |-> BigMul(BigInt(BigUIntToString(initBase)), BigPow10(quoteDecimals)) ]

EconomicsFields(rec, baseDec, quoteDec) ==
    [ baseDecimals |-> baseDec,
      quoteDecimals |-> quoteDec,
      K |-> BigIntToString(Khuman(rec.initPcAmount, rec.initCoinAmount, quoteDec, baseDec)),
      V |-> LaunchPrice(rec.initPcAmount, rec.initCoinAmount, quoteDec, baseDec),
      isWSOLSwap |-> rec.quoteMint = WSOL_MINT ]

\* PublicKey.findProgramAddressSync([marketId], marketProgramId)
ProgramAddress(marketId, marketProgramId) == <<"pda", marketId, marketProgramId>>

\* getAssociatedTokenAddress(owner, mint)
AssociatedTokenAddress(owner, mint) == <<"ata", owner, mint>>

\* vault owner PDA, user token accounts, user SOL address
SwapSupportFields(rec, user) ==
    [ vaultOwner |-> ProgramAddress(rec.marketId, rec.marketProgramId),
      userBaseTokenAccount |-> AssociatedTokenAddress(user, rec.baseMint),
      userQuoteTokenAccount |-> AssociatedTokenAddress(user, rec.quoteMint),
      userSolAddress |-> user ]

\* x.toString() of a small number
DecimalString(n) == Canon(ToRadix(<<n>>, n + 1, 10))

\* Number(x) || dflt
NumberOr(x, dflt) == IF x = Absent THEN dflt ELSE IF x[1] = 0 THEN dflt ELSE x[1]

\* x ? x.toString() : dflt
StringOr(x, dflt) == IF x = Absent THEN dflt ELSE DecimalString(x[1])

\* the try block of the pool state fields
PoolStateTry(pd) ==
    [ swapFeeNumerator |-> NumberOr(pd.swapFeeNumerator, 25),
      swapFeeDenominator |-> NumberOr(pd.swapFeeDenominator, 10000),
      ownerTradeFeeNumerator |-> NumberOr(pd.ownerTradeFeeNumerator, 5),
      ownerTradeFeeDenominator |-> NumberOr(pd.ownerTradeFeeDenominator, 10000),
      ownerWithdrawFeeNumerator |-> NumberOr(pd.ownerWithdrawFeeNumerator, 0),
      ownerWithdrawFeeDenominator |-> NumberOr(pd.ownerWithdrawFeeDenominator, 10000),
      status |-> NumberOr(pd.status, 6),
      state |-> NumberOr(pd.state, 1),
      resetFlag |-> NumberOr(pd.resetFlag, 0),
      minSize |-> StringOr(pd.minSize, <<1>>),
      pnlNumerator |-> StringOr(pd.pnlNumerator, <<0>>),
      pnlDenominator |-> StringOr(pd.pnlDenominator, <<1>>) ]

\* the catch block: default values if pool data extraction fails
PoolStateCatch ==
    [ swapFeeNumerator |-> 25,
      swapFeeDenominator |-> 10000,
      ownerTradeFeeNumerator |-> 5,
      ownerTradeFeeDenominator |-> 10000,
      ownerWithdrawFeeNumerator |-> 0,
      ownerWithdrawFeeDenominator |-> 10000,
      status |-> 6,
      state |-> 1,
      resetFlag |-> 0,
      minSize |-> <<1>>,
      pnlNumerator |-> <<0>>,
      pnlDenominator |-> <<1>> ]

PoolStateThrows(pd) == \E f \in NumberFields \cup StringFields : pd[f] = Unreadable

\* pool state fields from the AMM account; volMaxCutRatio, depth, the
\* deposits, systemDecimalsValue and the wall-clock fields are not carried
PoolStateFields(pd) == IF PoolStateThrows(pd) THEN PoolStateCatch ELSE PoolStateTry(pd)

\* market authority - if not already computed, derive it
MarketAuthorityField(rec) ==
    [ marketAuthority |->
        IF Falsy(rec.marketAuthority)
        THEN ProgramAddress(rec.marketId, rec.marketProgramId)
        ELSE rec.marketAuthority ]

\* one ledger read and how it ended
Read(name, result) == [read |-> name, result |-> result]

(***************************************************************************)
(* processRaydiumLpTransaction(conn, sig)                                  *)
(***************************************************************************)
\* up to await conn.getTransaction
ProcessStart ==
    /\ dPc = "start"
    /\ dPc' = IF env = UNDEFINED THEN "threw" ELSE "awaitTx"
    /\ UNCHANGED <<env, tx, dIx, dParams, dRaw, td, lpDb, collection, mintDecimals,
                   poolData, mAcc, dReads>>
    /\ UNCHANGED <<wvars, svars, lvars>>

\* the loop over the instructions, up to await conn.getAccountInfo(ammId)
TxSettles ==
    /\ dPc = "awaitTx"
    /\ \E outcome \in {"fail", "null", "ok"} :
         /\ dReads' = Append(dReads, Read("getTransaction", outcome))
         /\ IF outcome = "fail"
            THEN /\ dPc' = "threw"
                 /\ UNCHANGED <<dIx, dParams, dRaw, td>>
            ELSE IF outcome = "null"
            THEN /\ dPc' = "returnedNull"
                 /\ UNCHANGED <<dIx, dParams, dRaw, td>>
            ELSE LET k == FirstAmmIx(tx.accounts, tx.ixs, 1) IN
                 IF k = 0
                 THEN /\ dPc' = "returnedNull"
                      /\ UNCHANGED <<dIx, dParams, dRaw, td>>
                 ELSE /\ dIx' = k
                      /\ IF ParseInit2Throws(tx.ixs[k].data)
                         THEN /\ dPc' = "threw"
                              /\ UNCHANGED <<dParams, dRaw, td>>
                         ELSE LET params == ParseInit2(tx.ixs[k].data)
                                  raw == PairFields(tx.accounts, tx.ixs[k].accounts, params)
                                  rec == TdFields(tx.accounts, tx.ixs[k].accounts, Flip(raw))
                              IN  /\ dParams' = params
                                  /\ dRaw' = raw
                                  /\ td' = rec
                                  /\ dPc' = IF PublicKeyThrows(rec.ammId) THEN "threw"
                                            ELSE "awaitPool"
    /\ UNCHANGED <<env, tx, lpDb, collection, mintDecimals, poolData, mAcc>>
    /\ UNCHANGED <<wvars, svars, lvars>>

\* poolAcc, liquidityStateV4Layout.decode, up to await conn.getTokenSupply(lpMint)
PoolSettles ==
    /\ dPc = "awaitPool"
    /\ \E outcome \in {"fail", "null", "undecodable", "ok"} :
         /\ dReads' = Append(dReads, Read("getAccountInfo(ammId)",
                                          IF outcome = "undecodable" THEN "ok" ELSE outcome))
         /\ IF outcome = "null"
            THEN dPc' = "returnedNull" /\ UNCHANGED poolData
            ELSE IF outcome = "ok"
            THEN \E pd \in PoolDataSamples :
                    /\ poolData' = pd
                    /\ dPc' = IF PublicKeyThrows(td.lpMint) THEN "threw" ELSE "awaitLpSupply"
            ELSE dPc' = "threw" /\ UNCHANGED poolData
    /\ UNCHANGED <<env, tx, dIx, dParams, dRaw, td, lpDb, collection, mintDecimals, mAcc>>
    /\ UNCHANGED <<wvars, svars, lvars>>

\* Object.assign(td, {withdrawQueue, lpVault, ...}), up to await
\* conn.getAccountInfo(marketId)
LpSupplySettles ==
    /\ dPc = "awaitLpSupply"
    /\ \E outcome \in {"fail", "ok"} :
         /\ dReads' = Append(dReads, Read("getTokenSupply(lpMint)", outcome))
         /\ IF outcome = "fail" \/ PoolAddressThrows(poolData)
            THEN /\ dPc' = "threw"
                 /\ UNCHANGED td
            ELSE /\ td' = AssignPoolFields(td, poolData, mintDecimals[td.lpMint])
                 /\ dPc' = IF PublicKeyThrows(td.marketId) THEN "threw" ELSE "awaitMarket"
    /\ UNCHANGED <<env, tx, dIx, dParams, dRaw, lpDb, collection, mintDecimals,
                   poolData, mAcc>>
    /\ UNCHANGED <<wvars, svars, lvars>>

\* serum side-accounts, up to await Promise.all([getTokenSupply, getTokenSupply])
MarketSettles ==
    /\ dPc = "awaitMarket"
    /\ \E outcome \in {"fail", "ok"} :
         IF outcome = "fail"
         THEN /\ dReads' = Append(dReads, Read("getAccountInfo(marketId)", "fail"))
              /\ dPc' = "threw"
              /\ UNCHANGED <<td, mAcc>>
         ELSE \E m \in MarketSamples :
                 /\ dReads' = Append(dReads, Read("getAccountInfo(marketId)",
                                                  IF m.present THEN "ok" ELSE "null"))
                 /\ mAcc' = m
                 /\ IF MarketTooShort(m)
                    THEN /\ dPc' = "returnedNull"
                         /\ UNCHANGED td
                    ELSE /\ td' = MarketFields(m.data) @@ td
                         /\ dPc' = IF PublicKeyThrows(td.baseMint)
                                      \/ PublicKeyThrows(td.quoteMint)
                                   THEN "threw" ELSE "awaitSupplies"
    /\ UNCHANGED <<env, tx, dIx, dParams, dRaw, lpDb, collection, mintDecimals, poolData>>
    /\ UNCHANGED <<wvars, svars, lvars>>

\* decimals, K, V, derived addresses, pool state fields, up to the first await
\* of (await connectDB()).collection(...).insertOne(td)
SuppliesSettle ==
    /\ dPc = "awaitSupplies"
    /\ \E ob \in {"fail", "ok"}, oq \in {"fail", "ok"} :
         /\ dReads' = dReads \o << Read("getTokenSupply(baseMint)", ob),
                                   Read("getTokenSupply(quoteMint)", oq) >>
         /\ IF SuppliesThrow(ob, oq) \/ PublicKeyThrows(td.marketProgramId)
            THEN /\ dPc' = "threw"
                 /\ UNCHANGED td
            ELSE /\ td' = MarketAuthorityField(td) @@ PoolStateFields(poolData)
                             @@ SwapSupportFields(td, env)
                             @@ EconomicsFields(td, mintDecimals[td.baseMint],
                                                mintDecimals[td.quoteMint])
                             @@ td
                 /\ dPc' = IF Falsy(lpDb) THEN "awaitDbConnect" ELSE "awaitInsert"
    /\ UNCHANGED <<env, tx, dIx, dParams, dRaw, lpDb, collection, mintDecimals,
                   poolData, mAcc>>
    /\ UNCHANGED <<wvars, svars, lvars>>

\* connectDB: db = (await new MongoClient(...).connect()).db('bot')
DbConnectSettles ==
    /\ dPc = "awaitDbConnect"
    /\ \E outcome \in {"fail", "ok"} :
         IF outcome = "fail"
         THEN /\ dPc' = "threw"
              /\ UNCHANGED lpDb
         ELSE /\ lpDb' = "db"
              /\ dPc' = "awaitInsert"
    /\ UNCHANGED <<env, tx, dIx, dParams, dRaw, td, collection, mintDecimals,
                   poolData, mAcc, dReads>>
    /\ UNCHANGED <<wvars, svars, lvars>>

\* insertOne(td); return { ...td, tokenId: insertedId }
InsertSettles ==
    /\ dPc = "awaitInsert"
    /\ \E outcome \in {"fail", "ok"} :
         IF outcome = "fail"
         THEN /\ dPc' = "threw"
              /\ UNCHANGED collection
         ELSE /\ collection' = Append(collection, td)
              /\ dPc' = "returned"
    /\ UNCHANGED <<env, tx, dIx, dParams, dRaw, td, lpDb, mintDecimals, poolData,
                   mAcc, dReads>>
    /\ UNCHANGED <<wvars, svars, lvars>>

(***************************************************************************)
(* SwapCreator.createPoolKeysFromTokenData and SwapCreator.swapTokens, in  *)
(* the revisions of src/unnamed/part_000 and src/unnamed/part_001.         *)
(***************************************************************************)
SwapRevisions == {"part_000", "part_001"}

\* PublicKey.default
PublicKeyDefault == "11111111111111111111111111111111"

\* the field of tokenData each field of poolKeys is built from
PoolKeySource ==
    [ id |-> "ammId", baseMint |-> "baseMint", quoteMint |-> "quoteMint",
      baseVault |-> "baseVault", quoteVault |-> "quoteVault",
      authority |-> "ammAuthority", openOrders |-> "ammOpenOrders",
      targetOrders |-> "targetOrders", marketId |-> "marketId",
      programId |-> "programId", marketProgramId |-> "marketProgramId",
      marketBids |-> "marketBids", marketAsks |-> "marketAsks",
      marketEventQueue |-> "marketEventQueue", marketBaseVault |-> "marketBaseVault",
      marketQuoteVault |-> "marketQuoteVault", marketAuthority |-> "marketAuthority",
      vaultOwner |-> "vaultOwner" ]

PoolKeyNames == DOMAIN PoolKeySource

TokenDataFields == {PoolKeySource[k] : k \in PoolKeyNames} \cup {"userBaseTokenAccount"}

\* a record whose fields hold an address each, except the missing ones
TokenDataWithout(missing) ==
    [f \in TokenDataFields |-> IF f \in missing THEN UNDEFINED ELSE f]

\* no tokenData at all, a complete record, and the records with one field missing
TokenDataSamples ==
    { [given |-> FALSE, fields |-> TokenDataWithout(TokenDataFields)] }
    \cup { [given |-> TRUE, fields |-> TokenDataWithout(missing)] :
             missing \in {{}} \cup {{f} : f \in TokenDataFields} }

NoPoolKeys == [k \in PoolKeyNames |-> UNDEFINED]

\* const requiredFields = [...]
RequiredFields == {"ammId", "baseMint", "quoteMint", "userBaseTokenAccount"}

\* part_001: tokenData must be an object, required field checks
CreatePoolKeysThrows(data) ==
    ~data.given \/ \E f \in RequiredFields : Falsy(data.fields[f])

\* part_001: new PublicKey(tokenData.x || PublicKey.default)
CreatePoolKeysFromTokenData(data) ==
    [ k \in PoolKeyNames |->
        IF Falsy(data.fields[PoolKeySource[k]]) THEN PublicKeyDefault
        ELSE data.fields[PoolKeySource[k]] ]

\* part_000: new PublicKey(tokenData.x) throws on a missing field
CreatePoolKeysThrowsPart000(data) ==
    ~data.given \/ \E k \in PoolKeyNames : PublicKeyThrows(data.fields[PoolKeySource[k]])

\* part_000: new PublicKey(tokenData.x)
CreatePoolKeysFromTokenDataPart000(data) ==
    [k \in PoolKeyNames |-> data.fields[PoolKeySource[k]]]

\* up to await this.initializeRaydium(owner.publicKey)
SwapStart ==
    /\ swapPc = "start"
    /\ swapPc' = IF swapRev = "part_001" /\ ~swapData.given THEN "rejected" ELSE "awaitInit"
    /\ UNCHANGED <<swapRev, swapData, poolKeys, swapSent>>
    /\ UNCHANGED <<wvars, dvars, lvars>>

\* createPoolKeysFromTokenData, up to await raydium.liquidity.refreshPools
SwapInitSettles ==
    /\ swapPc = "awaitInit"
    /\ \E outcome \in {"fail", "ok"} :
         LET throws == IF swapRev = "part_001" THEN CreatePoolKeysThrows(swapData)
                       ELSE CreatePoolKeysThrowsPart000(swapData)
         IN  IF outcome = "fail" \/ throws
             THEN /\ swapPc' = "rejected"
                  /\ UNCHANGED poolKeys
             ELSE /\ poolKeys' = IF swapRev = "part_001"
                                 THEN CreatePoolKeysFromTokenData(swapData)
                                 ELSE CreatePoolKeysFromTokenDataPart000(swapData)
                  /\ swapPc' = "awaitRefresh"
    /\ UNCHANGED <<swapRev, swapData, swapSent>>
    /\ UNCHANGED <<wvars, dvars, lvars>>

\* getPool, up to await this.createTokenAccountInstructions
SwapRefreshSettles ==
    /\ swapPc = "awaitRefresh"
    /\ \E outcome \in {"fail", "noPoolState", "ok"} :
         swapPc' = IF outcome = "ok" THEN "awaitTokenAccounts" ELSE "rejected"
    /\ UNCHANGED <<swapRev, swapData, poolKeys, swapSent>>
    /\ UNCHANGED <<wvars, dvars, lvars>>

\* up to await raydium.trade.directSwap({poolKeys, ...})
SwapTokenAccountsSettle ==
    /\ swapPc = "awaitTokenAccounts"
    /\ \E outcome \in {"fail", "ok"} :
         swapPc' = IF outcome = "ok" THEN "awaitDirectSwap" ELSE "rejected"
    /\ UNCHANGED <<swapRev, swapData, poolKeys, swapSent>>
    /\ UNCHANGED <<wvars, dvars, lvars>>

\* up to await sendAndConfirmTransaction
SwapDirectSwapSettles ==
    /\ swapPc = "awaitDirectSwap"
    /\ \E outcome \in {"fail", "ok"} :
         IF outcome = "ok"
         THEN swapPc' = "awaitSend" /\ swapSent' = TRUE
         ELSE swapPc' = "rejected" /\ UNCHANGED swapSent
    /\ UNCHANGED <<swapRev, swapData, poolKeys>>
    /\ UNCHANGED <<wvars, dvars, lvars>>

\* return signature, or catch (error) { ...; throw error }
SwapSendSettles ==
    /\ swapPc = "awaitSend"
    /\ \E outcome \in {"fail", "ok"} :
         swapPc' = IF outcome = "ok" THEN "resolved" ELSE "rejected"
    /\ UNCHANGED <<swapRev, swapData, poolKeys, swapSent>>
    /\ UNCHANGED <<wvars, dvars, lvars>>

(***************************************************************************)
(* The record store: the decode pipeline inserts into a collection of a    *)
(* database, the watcher looks a record up by its _id.                     *)
(***************************************************************************)
\* connectDB(): .db('bot'), then .collection('raydium_lp_transactionsV3')
InsertNamespace == <<"bot", "raydium_lp_transactionsV3">>

\* a lookup in another collection
FetchNamespaceOther == <<"bot", "raydium_lp_transactions">>

\* fetchFromMongo: cli.db('bot'), then .collection('raydium_lp_transactionsV3')
FetchNamespace == <<"bot", "raydium_lp_transactionsV3">>

\* insertedId of the k-th insertOne: the record's position in the collection
InsertedId(k) == k

\* .findOne({ _id: id }) in namespace ns: the stored document or null
FindOne(ns, id) ==
    IF ns = InsertNamespace /\ id \in DOMAIN collection THEN StoredDoc ELSE NULL

\* the caller arms a session with the record the pipeline returned:
\* new Sniper({ ...cfg, tokenId: record.tokenId }, record)
ArmSession ==
    /\ dPc = "returned"
    /\ \A i \in BuyIds : buyPc[i] = "parked"
    /\ rev' \in Revisions
    /\ cfg' = [K |-> 60000, V |-> 50, sellTargetPrice |-> 20, quoteDecimals |-> 1]
    /\ store' = FindOne(FetchNamespace, InsertedId(Len(collection)))
    /\ sniper' = Constructor(cfg', MemDoc)
    /\ \E first \in FirstSubIds : conn' = NewConnection(first)
    /\ buyPc' = [i \in BuyIds |-> "idle"]
    /\ hPc' = [h \in HandlerIds |-> "idle"]
    /\ UNCHANGED <<swapLog, dbConnects, subscribes, buyArgs, buyTrade, lamportsNow, hLp>>
    /\ UNCHANGED <<dvars, svars, lvars>>

(***************************************************************************)
(* Specifications: the watcher session (Spec) and the decode pipeline      *)
(* (SpecDecode).                                                           *)
(***************************************************************************)
DecoderParked ==
    /\ env = UNDEFINED
    /\ tx = [accounts |-> <<>>, ixs |-> <<>>]
    /\ dPc = "parked"
    /\ dIx = 0
    /\ dParams = NoParams
    /\ dRaw = NoPair
    /\ td = NoTd
    /\ lpDb = NULL
    /\ collection = <<>>
    /\ mintDecimals = [m \in MintNames |-> 9]
    /\ poolData = PoolState(UNDEFINED, UNDEFINED, Absent)
    /\ mAcc = [present |-> FALSE, data |-> <<>>]
    /\ dReads = <<>>

DecoderInit ==
    /\ env \in {"USER_SOLANA_ADDRESS", UNDEFINED}
    /\ tx \in TxSamples
    /\ dPc = "start"
    /\ dIx = 0
    /\ dParams = NoParams
    /\ dRaw = NoPair
    /\ td = NoTd
    /\ lpDb = NULL
    /\ collection = <<>>
    /\ mintDecimals \in MintDecimalsSamples
    /\ poolData = PoolState(UNDEFINED, UNDEFINED, Absent)
    /\ mAcc = [present |-> FALSE, data |-> <<>>]
    /\ dReads = <<>>

WatcherParked ==
    /\ rev = "part_002"
    /\ cfg = [K |-> 0, V |-> 0, sellTargetPrice |-> 0, quoteDecimals |-> 0]
    /\ store = NULL
    /\ sniper = Constructor(cfg, NULL)
    /\ conn = [nextId |-> 0, listeners |-> {}, removals |-> <<>>]
    /\ swapLog = <<>>
    /\ dbConnects = 0
    /\ subscribes = 0
    /\ buyPc = [i \in BuyIds |-> "parked"]
    /\ buyArgs = [i \in BuyIds |-> UNDEFINED]
    /\ buyTrade = [i \in BuyIds |-> "none"]
    /\ hPc = [h \in HandlerIds |-> "parked"]
    /\ lamportsNow = 0
    /\ hLp = [h \in HandlerIds |-> UNDEFINED]

SwapParked ==
    /\ swapRev = "part_001"
    /\ swapData = [given |-> FALSE, fields |-> TokenDataWithout(TokenDataFields)]
    /\ swapPc = "parked"
    /\ poolKeys = NoPoolKeys
    /\ swapSent = FALSE

SwapInit ==
    /\ swapRev \in SwapRevisions
    /\ swapData \in TokenDataSamples
    /\ swapPc = "start"
    /\ poolKeys = NoPoolKeys
    /\ swapSent = FALSE

SessionsParked ==
    /\ uPc = [u \in UnsubIds |-> "parked"]
    /\ peer = Constructor(cfg, NULL)
    /\ peerConn = NewConnection(0)
    /\ peerPc = "parked"
    /\ peerSubscribes = 0

\* the owner's unsubscribe calls and a second session built from the same cfg
SessionsInit ==
    /\ uPc = [u \in UnsubIds |-> "idle"]
    /\ peer = Constructor(cfg, NULL)
    /\ peerConn = NewConnection(conn.nextId)
    /\ peerPc = "idle"
    /\ peerSubscribes = 0

Init == WatcherInit /\ DecoderParked /\ SwapParked /\ SessionsParked

InitDecode == WatcherParked /\ DecoderInit /\ SwapParked /\ SessionsParked

InitSwap == WatcherParked /\ DecoderParked /\ SwapInit /\ SessionsParked

InitSessions == WatcherInit /\ DecoderParked /\ SwapParked /\ SessionsInit

Next ==
    \/ \E i \in BuyIds : ExecuteBuy(i)
    \/ \E i \in BuyIds : ExecuteBuySettles(i)
    \/ SubscribeToVault
    \/ \E h \in HandlerIds : Notify(h)
    \/ \E h \in HandlerIds : ConnectSettles(h)
    \/ \E h \in HandlerIds : FindOneSettles(h)
    \/ \E h \in HandlerIds : BalanceSettles(h)
    \/ \E h \in HandlerIds : SellSettles(h)
    \/ \E h \in HandlerIds : RemoveSettles(h)

Spec == Init /\ [][Next]_vars

\* the subscription of a session outside its notification callbacks: the
\* owner's unsubscribe calls and repeated subscribeToVault calls, beside a
\* second session
NextSessions ==
    \/ \E i \in BuyIds : ExecuteBuy(i)
    \/ \E i \in BuyIds : ExecuteBuySettles(i)
    \/ SubscribeToVaultWithin(MaxSessionSubscribes)
    \/ \E u \in UnsubIds : Unsubscribe(u)
    \/ \E u \in UnsubIds : UnsubscribeSettles(u)
    \/ PeerSubscribeToVault
    \/ PeerUnsubscribe
    \/ PeerRemoveSettles

SpecSessions == InitSessions /\ [][NextSessions]_vars

NextDecode ==
    \/ ProcessStart
    \/ TxSettles
    \/ PoolSettles
    \/ LpSupplySettles
    \/ MarketSettles
    \/ SuppliesSettle
    \/ DbConnectSettles
    \/ InsertSettles

SpecDecode == InitDecode /\ [][NextDecode]_vars

\* the decode pipeline on genesis transactions of one instruction, for every
\* pair of decimals the ledger can report for the two mints
EconomicsAmounts ==
    { << <<0, 0, 0, 11, 164, 59, 116, 0>>, <<0, 0, 0, 0, 59, 154, 202, 0>> >>,
      << <<255, 2, 3, 4, 5, 6, 7, 8>>, <<255, 2, 3, 4, 5, 6, 7, 8>> >>,
      << <<0, 0, 0, 0, 59, 154, 202, 0>>, <<255, 2, 3, 4, 5, 6, 7, 8>> >> }

EconomicsTx(mints, amounts) ==
    [ accounts |-> Accounts("authority", mints[1], mints[2]),
      ixs |-> << AmmIx([k \in 1..21 |-> k - 1], amounts[1], amounts[2], 26) >> ]

\* the wrapped-native mint has 9 decimals, the other mints any number in 0..18
EconomicsInputs ==
    UNION { { [ tx |-> EconomicsTx(mints, amounts),
                mintDecimals |-> [m \in MintNames |-> IF m = "mintA" THEN a
                                                      ELSE IF m = "mintB" THEN b ELSE 9] ] :
                amounts \in EconomicsAmounts, a \in 0..18,
                b \in IF WSOL_MINT \in {mints[1], mints[2]} THEN {9} ELSE 0..18 } :
            mints \in MintPairs }

InitEconomics ==
    /\ WatcherParked
    /\ SwapParked
    /\ SessionsParked
    /\ env = "USER_SOLANA_ADDRESS"
    /\ \E input \in EconomicsInputs :
          /\ tx = input.tx
          /\ mintDecimals = input.mintDecimals
    /\ dPc = "start"
    /\ dIx = 0
    /\ dParams = NoParams
    /\ dRaw = NoPair
    /\ td = NoTd
    /\ lpDb = NULL
    /\ collection = <<>>
    /\ poolData = PoolState(UNDEFINED, UNDEFINED, Absent)
    /\ mAcc = [present |-> FALSE, data |-> <<>>]
    /\ dReads = <<>>

SpecEconomics == InitEconomics /\ [][NextDecode]_vars

NextSwap ==
    \/ SwapStart
    \/ SwapInitSettles
    \/ SwapRefreshSettles
    \/ SwapTokenAccountsSettle
    \/ SwapDirectSwapSettles
    \/ SwapSendSettles

SpecSwap == InitSwap /\ [][NextSwap]_vars

\* the trigger decision on its own: a session that is watching, for several
\* K, quote decimals and targets, notified of balances around the thresholds
TriggerCfgSamples ==
    { [K |-> k[1], V |-> v[1], sellTargetPrice |-> v[2], quoteDecimals |-> k[2]] :
        k \in {<<599999, 0>>, <<60000, 1>>, <<600, 2>>, <<0, 0>>, <<1, 0>>},
        v \in {<<50, 20>>, <<1, 0>>, <<7, 50>>} }

TriggerBalances ==
    {1, 2, 9, 10, 11, 99, 100, 101, 999, 1000, 1001, 5714, 5715, 9999, 10000, 10001,
     20000, 300000}

InitTrigger ==
    /\ rev \in Revisions
    /\ cfg \in TriggerCfgSamples
    /\ store = StoredDoc
    /\ sniper = [Constructor(cfg, NULL) EXCEPT !.vaultSubId = 1]
    /\ conn = OnAccountChange(NewConnection(1))
    /\ swapLog = << IF rev = "part_002" THEN BuyArgs(MemDoc) ELSE BuyArgsSniperJs(MemDoc) >>
    /\ dbConnects = 0
    /\ subscribes = 1
    /\ buyPc = [i \in BuyIds |-> IF i = 1 THEN "resolved" ELSE "idle"]
    /\ buyArgs = [i \in BuyIds |-> IF i = 1 THEN swapLog[1] ELSE UNDEFINED]
    /\ buyTrade = [i \in BuyIds |-> IF i = 1 THEN "ok" ELSE "none"]
    /\ hPc = [h \in HandlerIds |-> "idle"]
    /\ lamportsNow = 0
    /\ hLp = [h \in HandlerIds |-> UNDEFINED]
    /\ DecoderParked
    /\ SwapParked
    /\ SessionsParked

NextTrigger == \E h \in HandlerIds : NotifyOf(h, TriggerBalances)

SpecTrigger == InitTrigger /\ [][NextTrigger]_vars

\* one genesis transaction taken through the decode pipeline into the store,
\* then a session armed with the returned record
InitPersist ==
    /\ WatcherParked
    /\ SwapParked
    /\ SessionsParked
    /\ env = "USER_SOLANA_ADDRESS"
    /\ tx = EconomicsTx(<<"mintA", WSOL_MINT>>,
                        << <<0, 0, 0, 11, 164, 59, 116, 0>>, <<0, 0, 0, 0, 59, 154, 202, 0>> >>)
    /\ mintDecimals = [m \in MintNames |-> 9]
    /\ dPc = "start"
    /\ dIx = 0
    /\ dParams = NoParams
    /\ dRaw = NoPair
    /\ td = NoTd
    /\ lpDb = NULL
    /\ collection = <<>>
    /\ poolData = PoolState(UNDEFINED, UNDEFINED, Absent)
    /\ mAcc = [present |-> FALSE, data |-> <<>>]
    /\ dReads = <<>>

NextPersist ==
    \/ NextDecode
    \/ ArmSession
    \/ Next

SpecPersist == InitPersist /\ [][NextPersist]_vars

(***************************************************************************)
(* Properties of the watcher.                                              *)
(***************************************************************************)
Sells == {k \in DOMAIN swapLog : swapLog[k].swapBaseIn}
Buys == {k \in DOMAIN swapLog : ~swapLog[k].swapBaseIn}

\* positions of a callback that took the trigger branch and has ended
TriggeredEnded ==
    {"done", "failedStorage", "failedLedger", "failedTypeError", "failedTrade",
     "failedRemove"}

\* C1: a session hands at most one sell trade to the trade executor, under
\* every interleaving of notification callbacks.
C1_AtMostOneSell == Cardinality(Sells) <= 1

\* C2: whenever a sell trade has been handed to the trade executor and is
\* awaited, the vault subscription has already been released: the listener
\* is removed and the handle is cleared.
C2_UnsubscribedBeforeSell ==
    \A h \in HandlerIds :
        hPc[h] = "awaitSell" => conn.listeners = {} /\ sniper.vaultSubId = NoSub

\* C3: once a callback that triggered has ended, whatever the outcome of the
\* record fetch and of the sell, the subscription is torn down: the handle
\* is cleared and no listener is left.
C3_TornDownAfterTrigger ==
    \A h \in HandlerIds :
        hPc[h] \in TriggeredEnded => conn.listeners = {} /\ sniper.vaultSubId = NoSub

\* C4: over all executeBuy calls of a session the trade executor is asked for
\* a buy at most once, and a call that finds no cached record hands nothing
\* to the trade executor.
C4_AtMostOneBuy ==
    /\ Cardinality(Buys) <= 1
    /\ \A i \in BuyIds : buyPc[i] = "threwNoData" => buyArgs[i] = UNDEFINED

\* C5: after an executeBuy call on an armed session has finished, resolved or
\* failed, the cached in-memory record is released.
C5_ReleasedAfterBuy ==
    \A i \in BuyIds :
        buyPc[i] \in {"resolved", "rejected"} => sniper.fullLpData = NULL

\* C6: a failed buy trade is propagated to the caller of executeBuy, and as
\* long as no buy trade has succeeded the session has no vault subscription
\* and no sell is issued.
C6_BuyFailureStaysBelowWatching ==
    /\ \A i \in BuyIds : buyTrade[i] \in {"fail", "notBuilt"} => buyPc[i] = "rejected"
    /\ (\A i \in BuyIds : buyTrade[i] # "ok") =>
          /\ sniper.vaultSubId = NoSub
          /\ conn.listeners = {}
          /\ subscribes = 0
          /\ Sells = {}
          /\ \A h \in HandlerIds : hPc[h] = "idle"

C6_Witness ==
    /\ rev = "part_002"
    /\ \E i \in BuyIds : buyTrade[i] = "fail" /\ buyPc[i] = "rejected"
    /\ \A i \in BuyIds : buyTrade[i] # "ok" /\ buyPc[i] # "idle"

\* priceNow >= V * (1 + sellTargetPercent/100), with priceNow = K /
\* (lamports / 10^quoteDecimals), cleared of its denominators
PriceAtOrAboveTarget(c, lamports) ==
    IF lamports = 0 THEN c.K > 0
    ELSE c.K * Pow10(c.quoteDecimals) * 100 >= c.V * (100 + c.sellTargetPrice) * lamports

\* C7: a notification triggers the exit if and only if priceNow >= V * (1 +
\* sellTargetPercent/100); with V = 50 and 20 percent a price of 59.9999 does
\* not trigger and a price of 60.0 does; a notification below the target
\* leaves the session as it was (subscribed, no store read, no trade).
C7_TriggersIffAtTarget ==
    [][\A h \in HandlerIds :
          (hPc[h] = "idle" /\ hPc'[h] # "idle") =>
              /\ (hPc'[h] # "doneBelowTarget") <=> PriceAtOrAboveTarget(cfg, lamportsNow')
              /\ (cfg.K = 599999 /\ cfg.quoteDecimals = 0 /\ lamportsNow' = 10000)
                    => hPc'[h] = "doneBelowTarget"
              /\ (cfg.K = 60000 /\ cfg.quoteDecimals = 1 /\ lamportsNow' = 10000)
                    => hPc'[h] \in {"awaitConnect", "awaitFindOne"}
              /\ hPc'[h] = "doneBelowTarget" =>
                    UNCHANGED <<sniper, conn, swapLog, dbConnects, store>>]_vars

C7_Witness ==
    /\ cfg.K = 60000 /\ cfg.V = 50 /\ cfg.sellTargetPrice = 20
    /\ hPc[1] = "doneBelowTarget"
    /\ hPc[2] = "awaitSell"
    /\ lamportsNow = 10000
    /\ Cardinality(Sells) = 1
    /\ sniper.vaultSubId # NoSub

(***************************************************************************)
(* Properties of the decode pipeline.                                      *)
(***************************************************************************)
\* the instruction the call decoded
DecodedIx == tx.ixs[dIx]

Parsed == dIx # 0 /\ dParams # NoParams

\* accounts[idx[k]] of the decoded instruction, for a position both arrays hold
RawAccount(k) == tx.accounts[DecodedIx.accounts[k + 1] + 1]

\* the pair fields of a record
PairOf(doc) ==
    [ baseMint |-> doc.baseMint, quoteMint |-> doc.quoteMint,
      baseVault |-> doc.baseVault, quoteVault |-> doc.quoteVault,
      initBase |-> doc.initCoinAmount, initQuote |-> doc.initPcAmount ]

C9_WrappedNativeIsQuote ==
    \A k \in DOMAIN collection :
        LET doc == collection[k] IN
        /\ WSOL_MINT \in {RawAccount(8), RawAccount(9)} => doc.quoteMint = WSOL_MINT
        /\ RawAccount(8) = WSOL_MINT =>
              /\ doc.quoteMint = RawAccount(8)
              /\ doc.baseMint = RawAccount(9)
              /\ doc.quoteVault = RawAccount(10)
              /\ doc.baseVault = RawAccount(11)
              /\ doc.initPcAmount = dParams.initCoinAmount
              /\ doc.initCoinAmount = dParams.initPcAmount

C9_Witness ==
    /\ dPc = "returned"
    /\ Len(collection) = 1
    /\ RawAccount(8) = WSOL_MINT
    /\ RawAccount(9) = "mintA"
    /\ RawAccount(10) # RawAccount(11)
    /\ dParams.initCoinAmount # dParams.initPcAmount

\* C10: the pair is swapped if and only if the raw base mint is the
\* wrapped-native mint, and canonicalizing the canonicalized pair again
\* changes nothing.
C10_FlipIffWsolBaseAndIdempotent ==
    Parsed =>
        /\ dRaw.baseMint = WSOL_MINT =>
              PairOf(td) = [ baseMint |-> dRaw.quoteMint, quoteMint |-> dRaw.baseMint,
                             baseVault |-> dRaw.quoteVault, quoteVault |-> dRaw.baseVault,
                             initBase |-> dRaw.initQuote, initQuote |-> dRaw.initBase ]
        /\ dRaw.baseMint # WSOL_MINT => PairOf(td) = dRaw
        /\ Flip(PairOf(td)) = PairOf(td)

\* the BigInt a stored u64 amount denotes
AmountOf(v) == BigInt(BigUIntToString(v))

IsDecimalString(str) == Len(str) >= 1 /\ \A i \in DOMAIN str : str[i] \in 0..9

\* C11: in every stored record K is floor((initQuoteRaw * initBaseRaw) /
\* 10^(quoteDecimals + baseDecimals)) exactly, an integer written in decimal,
\* for all decimals in 0..18; for initCoinAmount = 1_000_000_000 and
\* initPcAmount = 50_000_000_000 with 9 decimals on both sides and the quote
\* already the wrapped-native mint nothing is flipped and K = 50, V = 50.
C11_KIsFloorOfScaledProduct ==
    \A k \in DOMAIN collection :
        LET doc == collection[k]
            product == BigMul(AmountOf(dRaw.initQuote), AmountOf(dRaw.initBase))
            scale == BigPow10(doc.quoteDecimals + doc.baseDecimals)
        IN  /\ doc.quoteDecimals = mintDecimals[doc.quoteMint]
            /\ doc.baseDecimals = mintDecimals[doc.baseMint]
            /\ IsDecimalString(doc.K)
            /\ BigLe(BigMul(BigInt(doc.K), scale), product)
            /\ ~BigLe(BigMul(BigAdd(BigInt(doc.K), <<1>>), scale), product)
            /\ ( /\ dParams.initCoinAmount = <<0, 0, 0, 0, 59, 154, 202, 0>>
                 /\ dParams.initPcAmount = <<0, 0, 0, 11, 164, 59, 116, 0>>
                 /\ RawAccount(9) = WSOL_MINT
                 /\ RawAccount(8) # WSOL_MINT
                 /\ mintDecimals[RawAccount(8)] = 9
                 /\ mintDecimals[RawAccount(9)] = 9 )
               => /\ PairOf(doc) = dRaw
                  /\ doc.K = <<5, 0>>
                  /\ doc.V.den # <<0>>
                  /\ doc.V.num = BigMul(<<50>>, doc.V.den)

C11_Witness ==
    /\ dPc = "returned"
    /\ Len(collection) = 1
    /\ dParams.initCoinAmount = <<0, 0, 0, 0, 59, 154, 202, 0>>
    /\ dParams.initPcAmount = <<0, 0, 0, 11, 164, 59, 116, 0>>
    /\ RawAccount(9) = WSOL_MINT
    /\ RawAccount(8) = "mintA"
    /\ mintDecimals["mintA"] = 9
    /\ collection[1].K = <<5, 0>>

\* accounts[idx[k]] of the decoded instruction, undefined where a list ends
RawAt(k) == Acc(tx.accounts, DecodedIx.accounts, k)

\* C12: when the account at instruction-account position 5 is the clock
\* sysvar, authority and open orders are taken one position further (6 and
\* 7) than in the default mapping (5 and 6); every other field is taken from
\* the same position in both layouts.
C12_VariantShiftsAuthorityAndOpenOrders ==
    Parsed =>
        /\ IF RawAt(5) = SYSVAR_CLOCK
           THEN td.ammAuthority = RawAt(6) /\ td.ammOpenOrders = RawAt(7)
           ELSE td.ammAuthority = RawAt(5) /\ td.ammOpenOrders = RawAt(6)
        /\ td.ammId = RawAt(4)
        /\ td.lpMint = RawAt(7)
        /\ dRaw.baseMint = RawAt(8)
        /\ dRaw.quoteMint = RawAt(9)
        /\ dRaw.baseVault = RawAt(10)
        /\ dRaw.quoteVault = RawAt(11)
        /\ td.targetOrders = RawAt(13)
        /\ td.marketProgramId = RawAt(15)
        /\ td.marketId = RawAt(16)
        /\ td.marketBaseVault = RawAt(18)
        /\ td.marketQuoteVault = RawAt(19)
        /\ RawAt(20) # UNDEFINED => td.marketAuthority = RawAt(20)

C12_Witness ==
    /\ dPc = "returned"
    /\ RawAt(5) = SYSVAR_CLOCK
    /\ collection[1].ammAuthority = "openOrders"
    /\ collection[1].ammOpenOrders = "lpMint"
    /\ collection[1].lpMint = "lpMint"

\* the read of the market account has settled without a failure
MarketRead ==
    \E i \in DOMAIN dReads :
        dReads[i].read = "getAccountInfo(marketId)" /\ dReads[i].result # "fail"

\* C13: when the market account is absent or shorter than 341 bytes the call
\* returns "no record" and nothing is inserted; every inserted record was
\* built from a market account of at least 341 bytes and its event queue,
\* bids and asks are the bytes [245,277), [277,309) and [309,341) of it.
C13_ShortMarketGivesNoRecord ==
    /\ (MarketRead /\ (~mAcc.present \/ Len(mAcc.data) < 341)) =>
          dPc = "returnedNull" /\ collection = <<>>
    /\ \A k \in DOMAIN collection :
          /\ mAcc.present
          /\ Len(mAcc.data) >= 341
          /\ collection[k].marketEventQueue = [i \in 1..32 |-> mAcc.data[245 + i]]
          /\ collection[k].marketBids = [i \in 1..32 |-> mAcc.data[277 + i]]
          /\ collection[k].marketAsks = [i \in 1..32 |-> mAcc.data[309 + i]]

C13_Witness ==
    /\ MarketRead
    /\ mAcc.present
    /\ Len(mAcc.data) = 340
    /\ dPc = "returnedNull"

ReadFailed == \E i \in DOMAIN dReads : dReads[i].result = "fail"

AllReadsOk ==
    dReads = << Read("getTransaction", "ok"), Read("getAccountInfo(ammId)", "ok"),
                Read("getTokenSupply(lpMint)", "ok"), Read("getAccountInfo(marketId)", "ok"),
                Read("getTokenSupply(baseMint)", "ok"), Read("getTokenSupply(quoteMint)", "ok") >>

\* C14: once a ledger read of the call has failed the call fails and nothing
\* is inserted; a record is inserted only after the transaction, the pool
\* account, the LP supply, the market account and both token supplies were
\* read, and the call returns a record exactly when one insert happened.
C14_NoInsertAfterFailedRead ==
    /\ ReadFailed => dPc = "threw" /\ collection = <<>>
    /\ collection # <<>> => AllReadsOk
    /\ Len(collection) <= 1
    /\ dPc = "returned" <=> Len(collection) = 1

C14_Witness ==
    /\ dPc = "threw"
    /\ Len(dReads) = 6
    /\ dReads[5].result = "ok"
    /\ dReads[6].result = "fail"
    /\ collection = <<>>

NoAmmInstruction ==
    \A k \in DOMAIN tx.ixs : tx.accounts[tx.ixs[k].programIdIndex + 1] # RAYDIUM_AMM

\* C15: when the transaction is absent or none of its instructions belongs to
\* the AMM program the call returns "no record" without an error, reads no
\* pool or market account and writes nothing to the store.
C15_UnrelatedTransactionGivesNoRecord ==
    ( /\ Len(dReads) >= 1
      /\ \/ dReads[1].result = "null"
         \/ dReads[1].result = "ok" /\ NoAmmInstruction )
    => /\ dPc = "returnedNull"
       /\ Len(dReads) = 1
       /\ dIx = 0
       /\ collection = <<>>

C15_Witness ==
    /\ dPc = "returnedNull"
    /\ dReads = << Read("getTransaction", "ok") >>
    /\ NoAmmInstruction
    /\ Len(tx.ixs) = 1

\* the positions of the instruction's account list the mapping reads
MappedPositions == {4, 5, 6, 7, 8, 9, 10, 11, 13, 15, 16, 18, 19, 20}

IndexListMalformed ==
    \E k \in MappedPositions :
        \/ k + 1 > Len(DecodedIx.accounts)
        \/ DecodedIx.accounts[k + 1] >= Len(tx.accounts)

\* C16: a matching instruction whose payload is shorter than 26 bytes makes
\* the call fail with nothing parsed and nothing persisted, and so does an
\* account-index list that is too short or out of bounds for the mapping: no
\* record is produced from it.
C16_MalformedInstructionFails ==
    /\ (dIx # 0 /\ Len(DecodedIx.data) < 26) =>
          dPc = "threw" /\ ~Parsed /\ collection = <<>>
    /\ (dIx # 0 /\ IndexListMalformed) =>
          dPc # "returned" /\ collection = <<>>

DocumentedDefault(f) ==
    CASE f = "swapFeeNumerator" -> 25
      [] f = "swapFeeDenominator" -> 10000
      [] f = "ownerTradeFeeNumerator" -> 5
      [] f = "ownerTradeFeeDenominator" -> 10000
      [] f = "ownerWithdrawFeeNumerator" -> 0
      [] f = "ownerWithdrawFeeDenominator" -> 10000
      [] f = "status" -> 6
      [] f = "state" -> 1
      [] f = "resetFlag" -> 0
      [] f = "minSize" -> <<1>>
      [] f = "pnlNumerator" -> <<0>>
      [] f = "pnlDenominator" -> <<1>>

\* C17: in every persisted record each descriptive pool-state field holds
\* the decoded value when the field decoded (a decoded zero included) and
\* the documented default when the field is absent or its decode failed.
C17_DecodedValueOrDefault ==
    \A k \in DOMAIN collection :
        /\ \A f \in NumberFields :
              IF poolData[f] \in {Absent, Unreadable}
              THEN collection[k][f] = DocumentedDefault(f)
              ELSE collection[k][f] = poolData[f][1]
        /\ \A f \in StringFields :
              IF poolData[f] \in {Absent, Unreadable}
              THEN collection[k][f] = DocumentedDefault(f)
              ELSE collection[k][f] = poolData[f]

\* the pool account was decoded and the LP supply read has settled
PoolFieldsAssigned == Len(dReads) >= 3 /\ dReads[3].result = "ok"

\* C18: when the withdraw queue or the LP vault of the pool state cannot be
\* decoded the call fails and nothing is persisted; every persisted record
\* carries the withdraw queue and the LP vault the pool state decoded to.
C18_AddressFieldsNeverDefaulted ==
    /\ ( /\ PoolFieldsAssigned
         /\ poolData.withdrawQueue = UNDEFINED \/ poolData.lpVault = UNDEFINED )
       => dPc = "threw" /\ collection = <<>>
    /\ \A k \in DOMAIN collection :
          /\ collection[k].withdrawQueue = poolData.withdrawQueue
          /\ collection[k].lpVault = poolData.lpVault
          /\ collection[k].withdrawQueue # UNDEFINED
          /\ collection[k].lpVault # UNDEFINED

C18_Witness ==
    /\ PoolFieldsAssigned
    /\ poolData.withdrawQueue = UNDEFINED
    /\ poolData.lpVault = "lpVault"
    /\ dPc = "threw"
    /\ collection = <<>>

\* the record a swapTokens call was handed, under whichever key
RecordOf(args) == IF "tokenData" \in DOMAIN args THEN args.tokenData ELSE args.lpData

RequiredAddressFields == TokenDataFields \ {"programId", "userBaseTokenAccount"}

AddressFieldMissing ==
    swapData.given /\ \E f \in RequiredAddressFields : swapData.fields[f] = UNDEFINED

\* C19: a swap attempted with a record in which a required address field is
\* missing fails before pool keys are handed on and before any trade is
\* submitted, and no pool key is ever the default address in place of a
\* missing field.
C19_MissingAddressFailsBeforeTrade ==
    /\ AddressFieldMissing =>
          /\ ~swapSent
          /\ poolKeys = NoPoolKeys
          /\ swapPc \in {"start", "awaitInit", "rejected"}
    /\ \A k \in PoolKeyNames : poolKeys[k] # PublicKeyDefault

(***************************************************************************)
(* Properties of the subscription of a session.                            *)
(***************************************************************************)
\* C21: unsubscribe is idempotent: a call made while the session has no
\* subscription returns at once, sends no listener-removal request and
\* leaves the session as it was; and in the state a completed call leaves
\* behind, a further call would again send nothing and change nothing, so
\* that two calls in sequence have the effect of one.
C21_UnsubscribeIdempotent ==
    [][\A u \in UnsubIds :
          /\ (uPc[u] = "idle" /\ uPc'[u] # "idle" /\ sniper.vaultSubId = NoSub) =>
                /\ uPc'[u] = "done"
                /\ UNCHANGED <<sniper, conn>>
          /\ (uPc[u] # "done" /\ uPc'[u] = "done") =>
                /\ UnsubscribeCall(sniper', conn') = conn'
                /\ ~UnsubscribeAwaits(sniper')]_vars

\* two calls in sequence on a subscribed session: one removal request
C21_Witness ==
    /\ subscribes = 1
    /\ uPc[1] = "done"
    /\ uPc[2] = "done"
    /\ conn.removals = <<1>>
    /\ conn.listeners = {}
    /\ sniper.vaultSubId = NoSub

(***************************************************************************)
(* Properties of the persisted records.                                    *)
(***************************************************************************)
\* C22: every record the decode pipeline has inserted into the collection
\* has a base mint different from its quote mint, whatever the transaction,
\* also when the instruction names the same account at both mint positions.
C22_PersistedMintsDiffer ==
    \A k \in DOMAIN collection : collection[k].baseMint # collection[k].quoteMint

\* C23: a persisted record is never changed: every step leaves the documents
\* of the collection as they are, no step of an armed session (executeBuy,
\* the notification callback with executeSell, unsubscribe) changes the
\* collection, and what a callback reads at trigger time is the document
\* the decode pipeline inserted.
C23_PersistedRecordReadOnly ==
    [][/\ \A k \in DOMAIN collection :
             k \in DOMAIN collection' /\ collection'[k] = collection[k]
       /\ (\E i \in BuyIds : buyPc[i] # "parked") =>
             collection' = collection /\ store' = store
       /\ \A h \in HandlerIds :
             hLp'[h] # hLp[h] =>
                 /\ collection # <<>>
                 /\ hLp'[h] = FindOne(InsertNamespace, InsertedId(Len(collection)))
                 /\ hLp'[h] = StoredDoc]_vars

C23_Witness ==
    /\ dPc = "returned"
    /\ Len(collection) = 1
    /\ collection[1] = td
    /\ hPc[1] = "awaitSell"
    /\ hLp[1] = StoredDoc
    /\ Sells # {}

(***************************************************************************)
(* Properties of sessions side by side.                                    *)
(***************************************************************************)
\* the state of the second session: its fields, its connection, its calls
PeerState == <<peer, peerConn, peerPc, peerSubscribes>>

\* the state of the first session
SessionState == <<sniper, conn, uPc, buyPc, buyArgs, buyTrade, subscribes, hPc, hLp>>

C25_SingleReachableListener ==
    /\ Cardinality(conn.listeners) <= 1
    /\ \A id \in conn.listeners : sniper.vaultSubId = id

\* C26: for each subscription handle the listener-removal request is sent to
\* the connection at most once, however the unsubscribe calls of the
\* notification callbacks interleave.
C26_RemovalSentOncePerHandle ==
    \A j, k \in DOMAIN conn.removals : j # k => conn.removals[j] # conn.removals[k]

(***************************************************************************)
(* Properties of the account mapping.                                      *)
(***************************************************************************)
\* the record fields read from an instruction-account position
PositionFields ==
    {"ammId", "lpMint", "ammAuthority", "ammOpenOrders", "baseMint", "quoteMint",
     "baseVault", "quoteVault", "targetOrders", "marketProgramId", "marketId",
     "marketBaseVault", "marketQuoteVault", "marketAuthority"}

\* the instruction names 21 different accounts, one at each position
DistinctAccountsAtPositions ==
    /\ dIx # 0
    /\ Len(DecodedIx.accounts) = 21
    /\ \A j, k \in 0..20 : j # k => RawAccount(j) # RawAccount(k)

\* C27: in both account layouts, with or without the clock sysvar at position
\* 5, different record fields are read from different instruction-account
\* positions: on an instruction that names a different account at each
\* position no two of these fields hold the same account, and in particular
\* the open-orders account is not the LP mint.
C27_FieldsReadFromDistinctPositions ==
    (td # NoTd /\ DistinctAccountsAtPositions) =>
        /\ \A f, g \in PositionFields : f # g => td[f] # td[g]
        /\ td.ammOpenOrders # td.lpMint

(***************************************************************************)
(* Properties of the instruction scan.                                     *)
(***************************************************************************)
\* the instructions of the transaction that belong to the AMM program
AmmInstructions ==
    {k \in DOMAIN tx.ixs : AccountAt(tx.accounts, tx.ixs[k].programIdIndex) = RAYDIUM_AMM}

\* how often the call has issued the read named name
ReadCount(name) == Cardinality({k \in DOMAIN dReads : dReads[k].read = name})

\* C28: one call of the decode pipeline inserts at most one record: the
\* instruction it decodes is the first one of the AMM program, its amounts
\* are the ones the record is built from, no stage of the pipeline runs a
\* second time for a later AMM instruction, and this however the first one
\* ends (record, no record or error).
C28_OnlyFirstAmmInstructionDecoded ==
    /\ Len(collection) <= 1
    /\ dIx # 0 => dIx \in AmmInstructions /\ \A j \in AmmInstructions : dIx <= j
    /\ Parsed => dParams = ParseInit2(tx.ixs[dIx].data)
    /\ \A k \in DOMAIN dReads : ReadCount(dReads[k].read) = 1
    /\ dPc \in {"returned", "returnedNull", "threw"} =>
          /\ (AmmInstructions # {} /\ Len(dReads) >= 1 /\ dReads[1].result = "ok") => dIx # 0
          /\ dPc = "returned" => Len(collection) = 1 /\ collection[1] = td

\* a transaction with two AMM instructions whose first one ended in a record
C28_Witness ==
    /\ Cardinality(AmmInstructions) = 2
    /\ tx.ixs[1].data # tx.ixs[2].data
    /\ dIx = 1
    /\ dPc = "returned"
    /\ Len(collection) = 1

(***************************************************************************)
(* Properties of the store handle.                                         *)
(***************************************************************************)
\* C29: the lazily initialised store handle of a session is created at most
\* once: over all callbacks of the session, however they interleave, at most
\* one store connection is opened.
C29_StoreHandleCreatedOnce == dbConnects <= 1

(***************************************************************************)
(* Properties of the trigger decision.                                     *)
(***************************************************************************)
\* C30: for fixed K, quote decimals and target price the trigger decision is
\* monotone in the notified balance: when a notification with a positive
\* balance triggers, every smaller positive balance triggers as well; when it
\* does not, no larger balance does; and it triggers exactly when the balance
\* in human units is at or below K divided by the target price.
C30_TriggerMonotoneInBalance ==
    [][\A h \in HandlerIds :
          (hPc[h] = "idle" /\ hPc'[h] # "idle") =>
              LET b == lamportsNow'
                  fired == hPc'[h] # "doneBelowTarget"
              IN  /\ fired =>
                        \A b2 \in TriggerBalances : b2 <= b => TargetReached(sniper, b2)
                  /\ ~fired =>
                        \A b2 \in TriggerBalances : b2 >= b => ~TargetReached(sniper, b2)
                  /\ fired <=>
                        b * cfg.V * (100 + cfg.sellTargetPrice)
                            <= cfg.K * Pow10(cfg.quoteDecimals) * 100]_vars

\* a balance that triggered after a larger one that did not
C30_Witness ==
    /\ cfg.K = 600 /\ cfg.quoteDecimals = 2 /\ cfg.V = 50 /\ cfg.sellTargetPrice = 20
    /\ hPc[1] = "doneBelowTarget"
    /\ hPc[2] \in {"awaitConnect", "awaitFindOne"}
    /\ lamportsNow = 1000
====
